---- MODULE Spec2Model ----
(***************************************************************************)
(* Model of discord_http/embeds.py: the Embed builder, its mutators and    *)
(* the to_dict / from_dict conversion pair.                                *)
(*                                                                         *)
(* Python values are records [t |-> <type tag>, v |-> <payload>].          *)
(* Mappings (dict) are functions whose domain is the set of keys present;  *)
(* lists are sequences.  The empty dict and the empty list are both << >>. *)
(***************************************************************************)
EXTENDS Integers, Sequences, FiniteSets, TLC

VARIABLES
    e,       \* the embed under construction
    c,       \* the embed returned by e.copy(), NoEmbed before copy() is called
    alias,   \* the composite attributes whose object is shared by e and c
    origin,  \* how e was created: "init" (Embed.__init__) or "from_dict"
    last,    \* the last operation performed and the embed it was called on
    nops     \* number of operations performed (counted by SpecCopy only)

vars == <<e, c, alias, origin, last, nops>>

\* ---------------------------------------------------------------- bounds
MaxFields == 2
MaxOps == 3

\* ---------------------------------------------------------- Python values
None == [t |-> "none", v |-> ""]
Unset == [t |-> "unset", v |-> ""]
PyStr(s) == [t |-> "str", v |-> s]
PyInt(n) == [t |-> "int", v |-> n]
PyBool(b) == [t |-> "bool", v |-> b]
Datetime(x, aware) == [t |-> "datetime", v |-> x, tz |-> aware]
NoEmbed == [t |-> "noembed"]

\* decimal text of the small non-negative integers the inputs use
Digits == <<"0", "1", "2", "3", "4", "5", "6", "7", "8", "9">>

\* the colour wrapper (discord_http/colour.py)
Colour(i) == [t |-> "colour", v |-> i.v]
Colour_bool(x) == x.v # 0

\* builtin int(): of an int, or of a Colour through Colour.__int__
int(x) == PyInt(x.v)

\* builtin str(): a str is returned as is, an int as its decimal text
str(x) ==
    CASE x.t = "str" -> x
      [] x.t = "int" -> PyStr(Digits[x.v + 1])
      [] x.t = "none" -> PyStr("None")
      [] x.t = "bool" -> PyStr(IF x.v THEN "True" ELSE "False")

\* truth value of a scalar Python value, as `if x:` tests it
bool(x) ==
    CASE x.t = "none" -> FALSE
      [] x.t = "str" -> x.v # ""
      [] x.t = "int" -> x.v # 0
      [] x.t = "bool" -> x.v
      [] x.t = "colour" -> Colour_bool(x)
      [] OTHER -> TRUE

\* datetime.astimezone(): attaches the local zone to a naive datetime
astimezone(d) == [d EXCEPT !.tz = TRUE]

\* datetime.isoformat(): the ISO-8601 text, with the offset when aware
isoformat(d) == PyStr(IF d.tz THEN "2024-01-01T00:00:00+00:00" ELSE d.v)

\* dict helpers
EmptyDict == [k \in {} |-> None]
DictSet(d, k, x) == [j \in DOMAIN d \cup {k} |-> IF j = k THEN x ELSE d[j]]
get(d, k, default) == IF k \in DOMAIN d THEN d[k] ELSE default

Composite == {"footer", "image", "thumbnail", "author", "fields"}

\* ------------------------------------------------------------- Embed
Embed(title, description, colour, color, url, timestamp) ==
    [colour |-> IF colour # None THEN Colour(int(colour))
                ELSE IF color # None THEN Colour(int(color))
                ELSE None,
     title |-> IF title # None THEN str(title) ELSE title,
     description |-> IF description # None THEN str(description) ELSE description,
     timestamp |-> timestamp,
     url |-> url,
     type |-> PyStr("rich"),
     footer |-> EmptyDict,
     image |-> EmptyDict,
     thumbnail |-> EmptyDict,
     author |-> EmptyDict,
     fields |-> << >>,
     _colour |-> Unset]

set_colour(self, value) ==
    IF value = None
    THEN [self EXCEPT !._colour = None]
    ELSE [self EXCEPT !._colour = Colour(int(value))]

\* set_footer rebuilding the mapping from the arguments alone (replace, not merge)
set_footer_replace(self, text, icon_url) ==
    LET f1 == IF bool(text) THEN DictSet(EmptyDict, "text", str(text)) ELSE EmptyDict
        f2 == IF bool(icon_url) THEN DictSet(f1, "icon_url", str(icon_url)) ELSE f1
    IN  [self EXCEPT !.footer = f2]

set_footer(self, text, icon_url) ==
    IF ~(bool(text) \/ bool(icon_url))
    THEN [self EXCEPT !.footer = EmptyDict]
    ELSE LET f1 == IF bool(text)
                   THEN DictSet(self.footer, "text", str(text))
                   ELSE self.footer
             f2 == IF bool(icon_url)
                   THEN DictSet(f1, "icon_url", str(icon_url))
                   ELSE f1
         IN  [self EXCEPT !.footer = f2]

remove_footer(self) == [self EXCEPT !.footer = EmptyDict]

\* set_author testing url and icon_url for truth instead of `is not None`
set_author_truthy(self, name, url, icon_url) ==
    LET a1 == DictSet(self.author, "name", str(name))
        a2 == IF bool(url) THEN DictSet(a1, "url", str(url)) ELSE a1
        a3 == IF bool(icon_url) THEN DictSet(a2, "icon_url", str(icon_url)) ELSE a2
    IN  [self EXCEPT !.author = a3]

set_author(self, name, url, icon_url) ==
    LET a1 == DictSet(self.author, "name", str(name))
        a2 == IF url # None THEN DictSet(a1, "url", str(url)) ELSE a1
        a3 == IF icon_url # None THEN DictSet(a2, "icon_url", str(icon_url)) ELSE a2
    IN  [self EXCEPT !.author = a3]

remove_author(self) == [self EXCEPT !.author = EmptyDict]

set_image(self, url) ==
    IF url # None
    THEN [self EXCEPT !.image = DictSet(self.image, "url", str(url))]
    ELSE [self EXCEPT !.image = EmptyDict]

\* remove_image that resets the thumbnail as well
remove_image_both(self) == [self EXCEPT !.image = EmptyDict, !.thumbnail = EmptyDict]

remove_image(self) == [self EXCEPT !.image = EmptyDict]

\* set_thumbnail that leaves the mapping alone when url is None
set_thumbnail_keep(self, url) ==
    IF url # None
    THEN [self EXCEPT !.thumbnail = DictSet(self.thumbnail, "url", str(url))]
    ELSE self

set_thumbnail(self, url) ==
    IF url # None
    THEN [self EXCEPT !.thumbnail = DictSet(self.thumbnail, "url", str(url))]
    ELSE [self EXCEPT !.thumbnail = EmptyDict]

remove_thumbnail(self) == [self EXCEPT !.thumbnail = EmptyDict]

\* add_field inserting at the front of the list
add_field_front(self, name, value, inline) ==
    [self EXCEPT !.fields =
        <<[name |-> str(name), value |-> str(value), inline |-> inline]>> \o @]

add_field(self, name, value, inline) ==
    [self EXCEPT !.fields =
        Append(@, [name |-> str(name), value |-> str(value), inline |-> inline])]

\* del s[index] taking every negative index for out of range
ListDel_unsigned(s, index) ==
    LET n == Len(s)
    IN  IF index < 0 \/ index >= n
        THEN s
        ELSE [j \in 1..(n - 1) |-> IF j <= index THEN s[j] ELSE s[j + 1]]

\* del s[index]: a negative index counts from the end; IndexError leaves s as is
ListDel(s, index) ==
    LET n == Len(s)
        i == IF index < 0 THEN index + n ELSE index
    IN  IF i < 0 \/ i >= n
        THEN s
        ELSE [j \in 1..(n - 1) |-> IF j <= i THEN s[j] ELSE s[j + 1]]

remove_field(self, index) == [self EXCEPT !.fields = ListDel(self.fields, index.v)]

from_dict(data) ==
    [colour |-> IF get(data, "color", None) # None THEN Colour(data["color"]) ELSE None,
     title |-> get(data, "title", None),
     description |-> get(data, "description", None),
     timestamp |-> get(data, "timestamp", None),
     url |-> get(data, "url", None),
     type |-> get(data, "type", PyStr("rich")),
     footer |-> get(data, "footer", EmptyDict),
     image |-> get(data, "image", EmptyDict),
     thumbnail |-> get(data, "thumbnail", EmptyDict),
     author |-> get(data, "author", EmptyDict),
     fields |-> get(data, "fields", << >>),
     _colour |-> Unset]

\* whether to_dict takes the timestamp branch
EmitsTimestamp(self) == bool(self.timestamp) /\ self.timestamp.t = "datetime"

\* to_dict testing `is not None` where the code tests for truth
to_dict_keys_not_none(self) ==
    {k \in {"title", "description", "url"} : self[k] # None}
    \cup {k \in Composite : DOMAIN self[k] # {}}
    \cup (IF self.colour # None THEN {"color"} ELSE {})
    \cup (IF EmitsTimestamp(self) THEN {"timestamp"} ELSE {})

\* the keys to_dict puts into the mapping
to_dict_keys(self) ==
    {k \in {"title", "description", "url"} : bool(self[k])}
    \cup {k \in Composite : DOMAIN self[k] # {}}
    \cup (IF bool(self.colour) THEN {"color"} ELSE {})
    \cup (IF EmitsTimestamp(self) THEN {"timestamp"} ELSE {})

\* the mapping to_dict returns
to_dict(self) ==
    [k \in to_dict_keys(self) |->
        CASE k = "color" -> int(self.colour)
          [] k = "timestamp" ->
                isoformat(IF self.timestamp.tz THEN self.timestamp
                          ELSE astimezone(self.timestamp))
          [] OTHER -> self[k]]

\* the embed after to_dict: a naive timestamp has been replaced by an aware one
to_dict_self(self) ==
    IF EmitsTimestamp(self) /\ ~self.timestamp.tz
    THEN [self EXCEPT !.timestamp = astimezone(@)]
    ELSE self

\* copy(): the new embed, and the attributes whose object it shares with self
copy(self) == from_dict(to_dict(self))
copy_shared(self) == Composite \cap DOMAIN to_dict(self)

\* ------------------------------------------------------------- inputs
Naive == Datetime("2024-01-01T00:00:00", FALSE)
Aware == Datetime("2024-01-01T00:00:00", TRUE)

CtorInputs ==
    { [title |-> None, description |-> None, colour |-> None, color |-> None,
       url |-> None, timestamp |-> None],
      [title |-> PyInt(7), description |-> PyStr(""), colour |-> PyInt(0),
       color |-> PyInt(2), url |-> None, timestamp |-> Naive],
      [title |-> PyStr(""), description |-> PyStr("d"), colour |-> None,
       color |-> Colour(PyInt(5)), url |-> PyStr("u"), timestamp |-> Aware] }

DictInputs ==
    { [title |-> PyStr(""), description |-> None, color |-> PyInt(0),
       url |-> PyStr("u"), type |-> PyStr("image"),
       timestamp |-> PyStr("2024-01-01T00:00:00+00:00"),
       footer |-> [text |-> PyStr("a")],
       image |-> [url |-> PyStr("x"), proxy_url |-> PyStr("p")],
       fields |-> <<[name |-> PyStr("A"), value |-> PyStr("B"), inline |-> TRUE]>>] }

ColourInputs == {None, PyInt(5)}
FooterTexts == {None, PyStr(""), PyStr("a")}
FooterIcons == {None, PyStr("b")}
AuthorNames == {PyStr("n"), PyInt(7)}
AuthorUrls == {None, PyStr("")}
AuthorIcons == {None, PyStr("i")}
ImageUrls == {None, PyStr("x")}
ThumbnailUrls == {None, PyStr("")}
FieldArgs == { [name |-> PyStr("A"), value |-> PyStr("B"), inline |-> TRUE],
               [name |-> PyInt(7), value |-> PyStr(""), inline |-> FALSE] }
IndexInputs == ((0 - MaxFields - 1)..MaxFields) \cup {99}

\* ------------------------------------------------------------- state
\* the embeds that exist
Live == IF c = NoEmbed THEN {"e"} ELSE {"e", "c"}
Obj(who) == IF who = "e" THEN e ELSE c

\* the other embed after `new` replaced one embed's value: an attribute whose
\* object both embeds hold shows the mutation through either of them
Seen(other, new, shared) ==
    IF other = NoEmbed THEN other
    ELSE [k \in DOMAIN other |-> IF k \in shared THEN new[k] ELSE other[k]]

\* embed `who` becomes `new`; the method bound the attributes `rebound` to fresh
\* objects and changed every other composite attribute in place
Mutate(who, new, rebound) ==
    /\ who \in Live
    /\ IF who = "e"
       THEN e' = new /\ c' = Seen(c, new, alias \ rebound)
       ELSE c' = new /\ e' = Seen(e, new, alias \ rebound)
    /\ alias' = alias \ rebound
    /\ UNCHANGED origin

Did(op, who) == last' = [op |-> op, who |-> who]

Init ==
    /\ \E a \in CtorInputs :
          e = Embed(a.title, a.description, a.colour, a.color, a.url, a.timestamp)
    /\ c = NoEmbed
    /\ alias = {}
    /\ origin = "init"
    /\ last = [op |-> "init", who |-> "e"]
    /\ nops = 0

\* ------------------------------------------------------------- actions
SetColour(who, value) ==
    /\ Mutate(who, set_colour(Obj(who), value), {})
    /\ Did("set_colour", who)

SetFooter(who, text, icon_url) ==
    /\ Mutate(who, set_footer(Obj(who), text, icon_url), {})
    /\ Did("set_footer", who)

RemoveFooter(who) ==
    /\ Mutate(who, remove_footer(Obj(who)), {"footer"})
    /\ Did("remove_footer", who)

SetAuthor(who, name, url, icon_url) ==
    /\ Mutate(who, set_author(Obj(who), name, url, icon_url), {})
    /\ Did("set_author", who)

RemoveAuthor(who) ==
    /\ Mutate(who, remove_author(Obj(who)), {"author"})
    /\ Did("remove_author", who)

SetImage(who, url) ==
    /\ Mutate(who, set_image(Obj(who), url), {})
    /\ Did("set_image", who)

RemoveImage(who) ==
    /\ Mutate(who, remove_image(Obj(who)), {"image"})
    /\ Did("remove_image", who)

SetThumbnail(who, url) ==
    /\ Mutate(who, set_thumbnail(Obj(who), url), {})
    /\ Did("set_thumbnail", who)

RemoveThumbnail(who) ==
    /\ Mutate(who, remove_thumbnail(Obj(who)), {"thumbnail"})
    /\ Did("remove_thumbnail", who)

AddField(who, name, value, inline) ==
    /\ who \in Live
    /\ Len(Obj(who).fields) < MaxFields
    /\ Mutate(who, add_field(Obj(who), name, value, inline), {})
    /\ Did("add_field", who)

RemoveField(who, index) ==
    /\ Mutate(who, remove_field(Obj(who), PyInt(index)), {})
    /\ Did("remove_field", who)

ToDict(who) ==
    /\ Mutate(who, to_dict_self(Obj(who)), {})
    /\ Did("to_dict", who)

FromDict(data) ==
    /\ e' = from_dict(data)
    /\ origin' = "from_dict"
    /\ alias' = {}
    /\ UNCHANGED c
    /\ Did("from_dict", "e")

Copy ==
    /\ c = NoEmbed
    /\ c' = copy(e)
    /\ e' = to_dict_self(e)
    /\ alias' = copy_shared(e)
    /\ UNCHANGED origin
    /\ Did("copy", "e")

\* a step of the one-embed specification: nothing is counted
Alone == UNCHANGED nops

\* a step of the copy specification: one more operation, MaxOps at most
Counted == nops < MaxOps /\ nops' = nops + 1

\* one embed: construction or from_dict, then mutators and to_dict
Next ==
    \/ \E value \in ColourInputs : SetColour("e", value) /\ Alone
    \/ \E text \in FooterTexts, icon_url \in FooterIcons :
          SetFooter("e", text, icon_url) /\ Alone
    \/ RemoveFooter("e") /\ Alone
    \/ \E name \in AuthorNames, url \in AuthorUrls, icon_url \in AuthorIcons :
          SetAuthor("e", name, url, icon_url) /\ Alone
    \/ RemoveAuthor("e") /\ Alone
    \/ \E url \in ImageUrls : SetImage("e", url) /\ Alone
    \/ RemoveImage("e") /\ Alone
    \/ \E url \in ThumbnailUrls : SetThumbnail("e", url) /\ Alone
    \/ RemoveThumbnail("e") /\ Alone
    \/ \E f \in FieldArgs : AddField("e", f.name, f.value, f.inline) /\ Alone
    \/ \E index \in IndexInputs : RemoveField("e", index) /\ Alone
    \/ ToDict("e") /\ Alone
    \/ \E data \in DictInputs : FromDict(data) /\ Alone

Spec == Init /\ [][Next]_vars

\* an embed and its copy(), each mutated, MaxOps operations in all
NextCopy ==
    \/ \E who \in Live, value \in ColourInputs : SetColour(who, value) /\ Counted
    \/ \E who \in Live, text \in FooterTexts, icon_url \in FooterIcons :
          SetFooter(who, text, icon_url) /\ Counted
    \/ \E who \in Live : RemoveFooter(who) /\ Counted
    \/ \E who \in Live, name \in AuthorNames, url \in AuthorUrls, icon_url \in AuthorIcons :
          SetAuthor(who, name, url, icon_url) /\ Counted
    \/ \E who \in Live : RemoveAuthor(who) /\ Counted
    \/ \E who \in Live, url \in ImageUrls : SetImage(who, url) /\ Counted
    \/ \E who \in Live : RemoveImage(who) /\ Counted
    \/ \E who \in Live, url \in ThumbnailUrls : SetThumbnail(who, url) /\ Counted
    \/ \E who \in Live : RemoveThumbnail(who) /\ Counted
    \/ \E who \in Live, f \in FieldArgs : AddField(who, f.name, f.value, f.inline) /\ Counted
    \/ \E who \in Live, index \in IndexInputs : RemoveField(who, index) /\ Counted
    \/ Copy /\ Counted

SpecCopy == Init /\ [][NextCopy]_vars

\* ------------------------------------------------------------- claims
Scalars == {"title", "description", "url", "colour", "timestamp", "type"}
Attributes == Scalars \cup Composite

\* an attribute value that the omission rule keeps
NonEmpty(x, k) == IF k \in Composite THEN x[k] # << >> ELSE bool(x[k])

\* key k is in both mappings with one value, or in neither
KeyKept(d1, d2, k) ==
    /\ k \in DOMAIN d1 <=> k \in DOMAIN d2
    /\ k \in DOMAIN d1 => d2[k] = d1[k]

Falsy(x) == x = None \/ x = PyStr("") \/ x = PyInt(0)

FooterOps == {"set_footer", "remove_footer"}
AuthorOps == {"set_author", "remove_author"}
ImageOps == {"set_image", "remove_image"}
ThumbnailOps == {"set_thumbnail", "remove_thumbnail"}
FieldOps == {"add_field", "remove_field"}
CompositeOps == FooterOps \cup AuthorOps \cup ImageOps \cup ThumbnailOps \cup FieldOps
MutatorOps == CompositeOps \cup {"set_colour"}

\* the attribute a mutator is for
Target(op) ==
    CASE op \in FooterOps -> "footer"
      [] op \in AuthorOps -> "author"
      [] op \in ImageOps -> "image"
      [] op \in ThumbnailOps -> "thumbnail"
      [] op \in FieldOps -> "fields"
      [] op = "set_colour" -> "colour"

\* s without its element at the 0-based position i
Without(s, i) == SubSeq(s, 1, i) \o SubSeq(s, i + 2, Len(s))

\* C1: for an embed built by the constructor and any mutators,
\* from_dict(to_dict(e)) has, for every attribute of e that is non-empty under
\* the omission rule, a value equal to the one in e.
C1_RoundTrip ==
    origin = "init" =>
        LET r == from_dict(to_dict(e))
            s == to_dict_self(e)
        IN  \A k \in Attributes : NonEmpty(s, k) => r[k] = s[k]

\* C2: for an embed from the constructor or from_dict and any mutators, the
\* mapping to_dict returns has no key whose value is null, an empty string, an
\* empty mapping, an empty sequence or the colour 0.
C2_NoEmptyValue ==
    LET d == to_dict(e)
    IN  \A k \in DOMAIN d :
            IF k \in Composite THEN d[k] # << >>
            ELSE d[k] # None /\ d[k] # PyStr("") /\ (k = "color" => d[k] # PyInt(0))

C2_Witness ==
    /\ last.op = "to_dict"
    /\ e.colour = Colour(PyInt(0))
    /\ e.description = PyStr("")
    /\ e.url = None
    /\ e.footer = EmptyDict
    /\ e.fields # << >>

\* C3: after set_colour(v) the embed's colour is the normalized v: with v null,
\* to_dict has no `color` key; with v a non-zero integer, to_dict has `color`
\* equal to v, whatever colour the embed held before.
C3_SetColour ==
    [][last'.op = "set_colour" =>
        \A v \in ColourInputs : SetColour("e", v) =>
            IF v = None
            THEN e'.colour = None /\ "color" \notin DOMAIN to_dict(e')
            ELSE /\ e'.colour = Colour(int(v))
                 /\ v.v # 0 =>
                       /\ "color" \in DOMAIN to_dict(e')
                       /\ to_dict(e')["color"] = int(v)]_vars

\* C4: after c = e.copy(), no mutator applied to c changes the footer, image,
\* thumbnail, author or fields of e, and no mutator applied to e changes those
\* of c.
C4_CopyIndependent ==
    [][(c # NoEmbed /\ last'.op \in CompositeOps) =>
        IF last'.who = "c"
        THEN \A k \in Composite : e'[k] = e[k]
        ELSE \A k \in Composite : c'[k] = c[k]]_vars

\* C5: set_footer(text, icon_url) on a footer in any state: with both arguments
\* null or falsy the footer becomes the empty mapping; otherwise each truthy
\* argument overwrites its own key with its string form and the key of a falsy
\* argument keeps the value it had (absent stays absent).
C5_SetFooter ==
    [][last'.op = "set_footer" =>
        \A text \in FooterTexts, icon_url \in FooterIcons :
            SetFooter("e", text, icon_url) =>
                IF Falsy(text) /\ Falsy(icon_url)
                THEN e'.footer = EmptyDict
                ELSE /\ DOMAIN e'.footer \subseteq DOMAIN e.footer \cup {"text", "icon_url"}
                     /\ \A k \in DOMAIN e.footer \ {"text", "icon_url"} :
                            KeyKept(e.footer, e'.footer, k)
                     /\ IF Falsy(text)
                        THEN KeyKept(e.footer, e'.footer, "text")
                        ELSE "text" \in DOMAIN e'.footer /\ e'.footer["text"] = str(text)
                     /\ IF Falsy(icon_url)
                        THEN KeyKept(e.footer, e'.footer, "icon_url")
                        ELSE /\ "icon_url" \in DOMAIN e'.footer
                             /\ e'.footer["icon_url"] = str(icon_url)]_vars

C5_Witness ==
    /\ last.op = "set_footer"
    /\ e.footer = [text |-> PyStr("a"), icon_url |-> PyStr("b")]
    /\ origin = "init"

\* C6: on an embed built by the constructor and any mutators, set_image(url)
\* and set_thumbnail(url) replace: with a non-null url the mapping afterwards is
\* exactly {url: str(url)}, with a null url it is empty, whatever it held.
C6_SetImageThumbnail ==
    [][origin = "init" =>
        /\ last'.op = "set_image" =>
              \A url \in ImageUrls : SetImage("e", url) =>
                  e'.image = IF url # None THEN [url |-> str(url)] ELSE EmptyDict
        /\ last'.op = "set_thumbnail" =>
              \A url \in ThumbnailUrls : SetThumbnail("e", url) =>
                  e'.thumbnail = IF url # None THEN [url |-> str(url)] ELSE EmptyDict]_vars

C6_Witness ==
    /\ origin = "init"
    /\ last.op = "set_thumbnail"
    /\ e.thumbnail = [url |-> PyStr("")]
    /\ e.image = [url |-> PyStr("x")]

\* C7: set_author(name, url, icon_url) always sets the author's name key to
\* str(name); each of url and icon_url that is not null overwrites its own key
\* with its string form, and each that is null keeps the value it had before
\* the call (absent stays absent).
C7_SetAuthor ==
    [][last'.op = "set_author" =>
        \A name \in AuthorNames, url \in AuthorUrls, icon_url \in AuthorIcons :
            SetAuthor("e", name, url, icon_url) =>
                /\ "name" \in DOMAIN e'.author /\ e'.author["name"] = str(name)
                /\ IF url = None
                   THEN KeyKept(e.author, e'.author, "url")
                   ELSE "url" \in DOMAIN e'.author /\ e'.author["url"] = str(url)
                /\ IF icon_url = None
                   THEN KeyKept(e.author, e'.author, "icon_url")
                   ELSE /\ "icon_url" \in DOMAIN e'.author
                        /\ e'.author["icon_url"] = str(icon_url)
                /\ DOMAIN e'.author \subseteq DOMAIN e.author \cup {"name", "url", "icon_url"}]_vars

C7_Witness ==
    /\ last.op = "set_author"
    /\ e.author = [name |-> PyStr("7"), url |-> PyStr(""), icon_url |-> PyStr("i")]

\* C8 as stated: remove_field(index) leaves the fields unchanged for every
\* index outside 0..len(fields)-1, and for an index inside it removes exactly
\* the field at that position, the others keeping their order.
C8_RemoveFieldOriginal ==
    [][last'.op = "remove_field" =>
        \A index \in IndexInputs : RemoveField("e", index) =>
            IF index \in 0..(Len(e.fields) - 1)
            THEN e'.fields = Without(e.fields, index)
            ELSE e'.fields = e.fields]_vars

\* C8 amended: remove_field(index) leaves the fields unchanged for every index
\* outside -len(fields)..len(fields)-1; for an index in 0..len(fields)-1 it
\* removes exactly the field at that position, and for an index in
\* -len(fields)..-1 exactly the field at position len(fields)+index; the others
\* keep their order.
C8_RemoveField ==
    [][last'.op = "remove_field" =>
        \A index \in IndexInputs : RemoveField("e", index) =>
            LET n == Len(e.fields)
            IN  CASE index \in 0..(n - 1) -> e'.fields = Without(e.fields, index)
                  [] index \in (0 - n)..(0 - 1) -> e'.fields = Without(e.fields, n + index)
                  [] OTHER -> e'.fields = e.fields]_vars

C8_Witness ==
    /\ last.op = "remove_field"
    /\ Len(e.fields) = MaxFields

\* C9: add_field(name, value, inline) yields the field sequence with the record
\* {str(name), str(value), inline} appended at the end, and remove_field at the
\* last index right afterwards gives back the sequence as it was before.
C9_AddThenRemove ==
    [][last'.op = "add_field" =>
        \A f \in FieldArgs : AddField("e", f.name, f.value, f.inline) =>
            /\ e'.fields = Append(e.fields,
                  [name |-> str(f.name), value |-> str(f.value), inline |-> f.inline])
            /\ remove_field(e', PyInt(Len(e'.fields) - 1)).fields = e.fields]_vars

C9_Witness ==
    /\ last.op = "add_field"
    /\ Len(e.fields) = MaxFields
    /\ e.fields[1] # e.fields[MaxFields]

\* C10: on an embed built by the constructor, every mutator leaves each
\* attribute other than the one it is for unchanged, and type stays "rich".
C10_Frame ==
    [][(origin = "init" /\ last'.op \in MutatorOps) =>
        /\ \A k \in Attributes \ {Target(last'.op)} : e'[k] = e[k]
        /\ e'.type = PyStr("rich")]_vars

C10_Witness ==
    /\ origin = "init"
    /\ last.op = "remove_image"
    /\ e.title = PyStr("7")
    /\ e.colour # None
    /\ e.timestamp # None
    /\ \A k \in Composite \ {"image"} : e[k] # << >>

====
